---------------------------- MODULE Spec2Model ----------------------------
(***************************************************************************)
(* Model of bot.py: a Telegram relay that keeps one transcript per user,   *)
(* short-circuits crisis messages and forwards the rest to a completion    *)
(* service.                                                                *)
(*                                                                         *)
(* Strings are sequences of Unicode code points, so that str.strip(),      *)
(* str.lower() and the substring test of is_crisis_message are computed    *)
(* rather than assumed.  The long string literals of the source (system    *)
(* prompt, crisis text, fallback text, command texts) are represented by   *)
(* their leading words: the program never looks inside them.               *)
(*                                                                         *)
(* Updates are dispatched one at a time (python-telegram-bot's default,    *)
(* sequential processing), so each handler is one action.                  *)
(***************************************************************************)
EXTENDS Integers, Sequences, FiniteSets, TLC

VARIABLES
    user_histories, \* bot.py:36   user_id -> list of {role, content}
    last,           \* what the latest handler invocation was given and did
    appended,       \* history: user_id -> every non-system entry appended to
                    \* the user's transcript since it was created (untrimmed)
    budget,         \* updates the environment may still deliver
    probe,          \* a call of is_crisis_message on its own: text and result
    process,        \* the module's start: environment, position, what is built
    tasks,          \* concurrent dispatch: the handler coroutines in flight
    log,            \* concurrent dispatch: the store mutations, in the order
                    \* they ran
    memory,         \* parallel workers: the list objects, and the list the
                    \* mapping names for each user
    workers         \* parallel workers: each worker's place in
                    \* call_openai_chat and its local variables

vars == <<user_histories, last, appended, budget, probe, process, tasks, log,
          memory, workers>>

---------------------------------------------------------------------------
(* Bounds of the model *)

\* updates delivered in a run of Spec (every input allowed at every step)
MaxUpdates == 3
\* updates delivered in a run of SpecLong (one long conversation)
MaxLong == 16
\* updates of a run of SpecLong that may differ from the plain exchange; in
\* SpecWorkers, messages that fail or are taken while a worker is running
MaxVaried == 2

\* updates delivered in a run of SpecAsync (concurrent dispatch)
MaxAsync == 3
\* length of what surrounds a phrase in the texts given to is_crisis_message
MaxPad == 1

Users == {1, 2}

---------------------------------------------------------------------------
(* Program constants *)

\* bot.py:134   if len(history) > 30
MAX_HISTORY == 30
\* bot.py:136   history[-28:]
KEEP_LAST == 28

\* bot.py:49  "Ty empatichnyy ..." (the system prompt)
SYSTEM_PROMPT == <<1058, 1099, 32, 1101, 1084, 1087, 1072, 1090, 1080, 1095, 1085, 1099, 1081>>
\* bot.py:101 "Ya slyshu, chto tebe ..." (the crisis text)
CRISIS_TEXT == <<1071, 32, 1089, 1083, 1099, 1096, 1091, 44, 32, 1095, 1090, 1086, 32, 1090, 1077, 1073, 1077>>
\* bot.py:144 "Ya seychas ne mogu ..." (the fallback text)
FALLBACK_TEXT == <<1071, 32, 1089, 1077, 1081, 1095, 1072, 1089, 32, 1085, 1077, 32, 1084, 1086, 1075, 1091>>
\* bot.py:156 "Privet!" (the /start text)
START_TEXT == <<1055, 1088, 1080, 1074, 1077, 1090, 33>>
\* bot.py:171 "Ya zdes', chtoby ..." (the /help text)
HELP_TEXT == <<1071, 32, 1079, 1076, 1077, 1089, 1100, 44, 32, 1095, 1090, 1086, 1073, 1099>>
\* bot.py:187 "Ya ochistil ..." (the /reset confirmation)
RESET_TEXT == <<1071, 32, 1086, 1095, 1080, 1089, 1090, 1080, 1083>>

\* bot.py:79-90, in the order of the source
crisis_keywords == <<
    \* "ubit' sebya"
    <<1091, 1073, 1080, 1090, 1100, 32, 1089, 1077, 1073, 1103>>,
    \* "suitsid"
    <<1089, 1091, 1080, 1094, 1080, 1076>>,
    \* "pokonchit' s soboy"
    <<1087, 1086, 1082, 1086, 1085, 1095, 1080, 1090, 1100, 32, 1089, 32, 1089, 1086, 1073, 1086, 1081>>,
    \* "ne khochu zhit'"
    <<1085, 1077, 32, 1093, 1086, 1095, 1091, 32, 1078, 1080, 1090, 1100>>,
    \* "khochu umeret'"
    <<1093, 1086, 1095, 1091, 32, 1091, 1084, 1077, 1088, 1077, 1090, 1100>>,
    \* "rezat' veny"
    <<1088, 1077, 1079, 1072, 1090, 1100, 32, 1074, 1077, 1085, 1099>>,
    \* "samoubiy"
    <<1089, 1072, 1084, 1086, 1091, 1073, 1080, 1081>>,
    \* "sebya ub'yu"
    <<1089, 1077, 1073, 1103, 32, 1091, 1073, 1100, 1102>>,
    \* "net smysla zhit'"
    <<1085, 1077, 1090, 32, 1089, 1084, 1099, 1089, 1083, 1072, 32, 1078, 1080, 1090, 1100>>,
    \* "bessmyslenno zhit'"
    <<1073, 1077, 1089, 1089, 1084, 1099, 1089, 1083, 1077, 1085, 1085, 1086, 32, 1078, 1080, 1090, 1100>>
  >>

---------------------------------------------------------------------------
(* Inputs *)

\* " Mne plokho " : a normal text with surrounding blanks
TextPlain == <<32, 1052, 1085, 1077, 32, 1087, 1083, 1086, 1093, 1086, 32>>
\* "Ustal" : a second normal text
TextOther == <<1059, 1089, 1090, 1072, 1083>>
\* " \n" : a text of blanks only
TextBlank == <<32, 10>>
\* " Ya Ne Khochu Zhit'. " : a crisis phrase in mixed case inside a sentence
TextCrisis == <<32, 1071, 32, 1053, 1077, 32, 1061, 1086, 1095, 1091, 32, 1046, 1080, 1090, 1100, 46, 32>>

Texts == {TextPlain, TextOther, TextBlank, TextCrisis}

\* " Ponimayu.\n" : the content of a completion, before strip()
ReplyRaw == <<32, 1055, 1086, 1085, 1080, 1084, 1072, 1102, 46, 10>>

\* An update as a handler sees it: update.message, update.message.text
NoMessage == [message |-> FALSE, has_text |-> FALSE, text |-> <<>>]
NoText == [message |-> TRUE, has_text |-> FALSE, text |-> <<>>]
TextUpdate(t) == [message |-> TRUE, has_text |-> TRUE, text |-> t]
\* A command arrives as a message or as an edited message (update.message is
\* None then)
\* "/" : the text of a command, which no handler reads
CommandText == <<47>>
CommandUpdates == {NoMessage, TextUpdate(CommandText)}
Updates == {NoMessage, NoText, TextUpdate(<<>>)} \cup {TextUpdate(t) : t \in Texts}

\* What send_action does: return, or raise a transport error
TypingOutcomes == {"ok", "raise"}

\* What the completion call does: return a completion with this content,
\* raise (transport, authentication, service error), or return a completion
\* whose reading raises (content None, no choices)
Completed(c) == [kind |-> "ok", content |-> c]
CallRaises == [kind |-> "raise", content |-> <<>>]
ResultUnreadable == [kind |-> "unreadable", content |-> <<>>]
CompletionOutcomes == {Completed(ReplyRaw), CallRaises, ResultUnreadable}

---------------------------------------------------------------------------
(* str methods *)

\* the code points str.isspace() accepts, which str.strip() removes
IsSpace(c) ==
    c \in (9..13) \cup (28..32) \cup {133, 160, 5760} \cup (8192..8202)
          \cup {8232, 8233, 8239, 8287, 12288}

SetMin(S) == CHOOSE x \in S : \A y \in S : x <= y
SetMax(S) == CHOOSE x \in S : \A y \in S : x >= y

\* str.strip()
strip(s) ==
    LET keep == {i \in 1..Len(s) : ~IsSpace(s[i])}
    IN  IF keep = {} THEN <<>> ELSE SubSeq(s, SetMin(keep), SetMax(keep))

\* str.lower() on one code point: basic Latin and the Cyrillic block
LowerChar(c) ==
    IF c \in 65..90 THEN c + 32
    ELSE IF c \in 1040..1071 THEN c + 32
    ELSE IF c \in 1024..1039 THEN c + 80
    ELSE c

\* str.lower()
lower(s) == [i \in 1..Len(s) |-> LowerChar(s[i])]

\* kw in t
Contains(t, kw) ==
    \E i \in 1..(Len(t) - Len(kw) + 1) : SubSeq(t, i, i + Len(kw) - 1) = kw

---------------------------------------------------------------------------
(* The session store *)

\* None, where the source has a str: no code point is negative
None == <<-1>>

\* user_histories = {}
NoHistories == [v \in {} |-> <<>>]

Entry(r, c) == [role |-> r, content |-> c]

SystemEntry == Entry("system", SYSTEM_PROMPT)

\* get_history: the store after the call; the list returned is the store's
\* list of user_id
get_history(h, user_id) ==
    IF user_id \notin DOMAIN h
    THEN [v \in DOMAIN h \cup {user_id} |->
            IF v = user_id THEN <<SystemEntry>> ELSE h[v]]
    ELSE h

\* reset_history that empties the transcript instead of deleting it
reset_history_keeps_key(h, user_id) ==
    IF user_id \in DOMAIN h
    THEN [h EXCEPT ![user_id] = <<SystemEntry>>]
    ELSE h

\* reset_history that clears the whole mapping
reset_history_clears_all(h, user_id) ==
    IF user_id \in DOMAIN h THEN NoHistories ELSE h

\* reset_history: the store after the call
reset_history(h, user_id) ==
    IF user_id \in DOMAIN h
    THEN [v \in DOMAIN h \ {user_id} |-> h[v]]
    ELSE h

\* is_crisis_message without text.lower()
is_crisis_message_case_sensitive(text) ==
    IF text = None \/ text = <<>> THEN FALSE
    ELSE \E k \in 1..Len(crisis_keywords) : Contains(text, crisis_keywords[k])

\* is_crisis_message
is_crisis_message(text) ==
    IF text = None \/ text = <<>> THEN FALSE
    ELSE LET t == lower(text)
         IN  \E k \in 1..Len(crisis_keywords) : Contains(t, crisis_keywords[k])

\* history[-n:]
LastN(s, n) == IF Len(s) <= n THEN s ELSE SubSeq(s, Len(s) - n + 1, Len(s))


---------------------------------------------------------------------------
(* call_openai_chat *)

\* call_openai_chat that calls the service before it appends the user message
append_user_skipped(history, user_message) == history

\* history.append({"role": "user", "content": user_message})
append_user(history, user_message) == Append(history, Entry("user", user_message))

\* history.append({"role": "assistant", "content": reply})
append_assistant(history, reply) == Append(history, Entry("assistant", reply))

\* trimming that keeps the oldest entries: history[1:29]
trim_keeps_oldest(history) ==
    IF Len(history) > MAX_HISTORY
    THEN <<history[1]>> \o SubSeq(history, 2, KEEP_LAST + 1)
    ELSE history

\* trimming that forgets the system entry: history[-29:]
trim_evicts_system(history) ==
    IF Len(history) > MAX_HISTORY
    THEN LastN(history, KEEP_LAST + 1)
    ELSE history

\* The list the mapping holds for the user once the size check has run:
\* a new list [system_msg, *last_msgs] when len(history) > 30, else history
trim_history(history) ==
    IF Len(history) > MAX_HISTORY
    THEN <<history[1]>> \o LastN(history, KEEP_LAST)
    ELSE history

\* The try block once the completion call has returned a readable content.
\* h already holds history (the list is the store's own list).
chat_success(h, user_id, history, content) ==
    LET reply == strip(content)
        grown == append_assistant(history, reply)
    IN  [histories |-> [h EXCEPT ![user_id] = trim_history(grown)],
         reply     |-> reply,
         untrimmed |-> grown,
         entries   |-> <<history[Len(history)], grown[Len(grown)]>>]

\* an except block that records the fallback text as the assistant's reply
chat_failure_phantom(h, user_id, history) ==
    [histories |-> [h EXCEPT ![user_id] = append_assistant(history, FALLBACK_TEXT)],
     reply     |-> FALLBACK_TEXT,
     untrimmed |-> append_assistant(history, FALLBACK_TEXT),
     entries   |-> <<history[Len(history)], Entry("assistant", FALLBACK_TEXT)>>]

\* The except block: the failure is logged and the fallback text returned.
chat_failure(h, user_id, history) ==
    [histories |-> h,
     reply     |-> FALLBACK_TEXT,
     untrimmed |-> history,
     entries   |-> <<history[Len(history)]>>]

\* call_openai_chat.  calls lists the messages= argument of every
\* completion call made; entries lists what was appended to the transcript.
call_openai_chat(h, user_id, user_message, outcome) ==
    LET h1      == get_history(h, user_id)
        history == append_user(h1[user_id], user_message)
        h2      == [h1 EXCEPT ![user_id] = history]
        r       == IF outcome.kind = "ok"
                   THEN chat_success(h2, user_id, history, outcome.content)
                   ELSE chat_failure(h2, user_id, history)
    IN  [histories |-> r.histories,
         reply     |-> r.reply,
         calls     |-> <<history>>,
         untrimmed |-> r.untrimmed,
         entries   |-> r.entries]

---------------------------------------------------------------------------
(* Handlers, as functions of the store and the inputs *)

\* What a handler invocation did: the store it leaves, the texts it sent
\* with reply_text, the completion calls it made, how it ended.
Outcome(h, stage, outbox) ==
    [histories |-> h, stage |-> stage, outbox |-> outbox, user_text |-> <<>>,
     calls |-> <<>>, untrimmed |-> <<>>, entries |-> <<>>,
     typing |-> "none", completion |-> "none"]

\* crisis_reply: the texts sent
crisis_reply(upd) == IF upd.message THEN <<CRISIS_TEXT>> ELSE <<>>

\* a start that fetches the user's history, creating it
start_creates_history(h, upd) ==
    Outcome(get_history(h, 1), "returned",
            IF upd.message THEN <<START_TEXT>> ELSE <<>>)

\* start
start(h, upd) ==
    Outcome(h, "returned", IF upd.message THEN <<START_TEXT>> ELSE <<>>)

\* help_command
help_command(h, upd) ==
    Outcome(h, "returned", IF upd.message THEN <<HELP_TEXT>> ELSE <<>>)

\* reset_command
reset_command(h, user_id, upd) ==
    Outcome(reset_history(h, user_id), "returned",
            IF upd.message THEN <<RESET_TEXT>> ELSE <<>>)

\* handle_message.  stage tells where the coroutine ended: "dropped" at the
\* guard, "raised" when send_action raised, "crisis" after crisis_reply,
\* "replied" after the reply of call_openai_chat was sent.
handle_message(h, user_id, upd, typing, outcome) ==
    IF ~upd.message \/ ~upd.has_text \/ upd.text = <<>>
    THEN Outcome(h, "dropped", <<>>)
    ELSE LET user_text == strip(upd.text)
         IN  IF typing = "raise"
             THEN [Outcome(h, "raised", <<>>) EXCEPT
                      !.user_text = user_text, !.typing = typing]
             ELSE IF is_crisis_message(user_text)
             THEN [Outcome(h, "crisis", crisis_reply(upd)) EXCEPT
                      !.user_text = user_text, !.typing = typing]
             ELSE LET r == call_openai_chat(h, user_id, user_text, outcome)
                  IN  [histories  |-> r.histories,
                       stage      |-> "replied",
                       outbox     |-> <<r.reply>>,
                       user_text  |-> user_text,
                       calls      |-> r.calls,
                       untrimmed  |-> r.untrimmed,
                       entries    |-> r.entries,
                       typing     |-> typing,
                       completion |-> outcome.kind]

---------------------------------------------------------------------------
(* The state machine *)

\* "t" : a value of BOT_TOKEN or OPENAI_API_KEY
Secret == <<116>>

\* os.getenv: None when the variable is not set, else its value
EnvValues == {None, <<>>, Secret}

\* the process once main() has reached run_polling
Polling == [pc |-> "polling", token |-> Secret, key |-> Secret,
            client |-> TRUE, app |-> TRUE]

\* a slot for a handler coroutine, with none in it
FreeTask == [pc |-> "free", handler |-> "none", user |-> 0, text |-> <<>>,
             seq |-> 0, seen |-> NoHistories]
\* the handler coroutines that may be in flight together
TaskSlots == {1, 2}
NoTasks == [t \in TaskSlots |-> FreeTask]

\* the workers that may run call_openai_chat side by side
WorkerIds == {1, 2}
\* the identities of the list objects alive at a time
ListIds == 1..3
\* a worker outside call_openai_chat: no job, no local history (held 0)
IdleWorker == [pc |-> "idle", job |-> 0, user |-> 0, held |-> 0,
               reply |-> <<>>, stale |-> FALSE]
NoWorkers == [w \in WorkerIds |-> IdleWorker]
\* no list object yet, and the mapping empty
NoMemory == [lists |-> <<>>, owners |-> <<>>, names |-> NoHistories,
             failed |-> {}, overlaps |-> 0]

NoProbe == [state |-> "idle", text |-> <<>>, verdict |-> FALSE]

Idle == [handler |-> "none", user |-> 0, update |-> NoMessage,
         before |-> NoHistories, did |-> Outcome(NoHistories, "none", <<>>)]

\* The plain exchange: user 1 sends TextPlain, the typing indicator is sent
\* and the completion call returns ReplyRaw.
Plain(handler, user_id, upd, typing, outcome) ==
    /\ handler = "message"
    /\ user_id = 1
    /\ upd = TextUpdate(TextPlain)
    /\ typing = "ok"
    /\ outcome = Completed(ReplyRaw)

\* One more update is delivered, within the bounds of the run.
Deliver(plain) ==
    /\ process.pc = "polling"
    /\ budget.updates > 0
    /\ plain \/ budget.varied > 0
    /\ budget' = [updates |-> budget.updates - 1,
                  varied  |-> IF plain THEN budget.varied ELSE budget.varied - 1]

\* The untrimmed record of what was appended to each transcript.
Recorded(did, user_id) ==
    [v \in DOMAIN did.histories |->
        IF v = user_id
        THEN (IF v \in DOMAIN appended THEN appended[v] ELSE <<>>) \o did.entries
        ELSE appended[v]]

Finish(handler, user_id, upd, did) ==
    /\ UNCHANGED <<probe, process, tasks, log, memory, workers>>
    /\ user_histories' = did.histories
    /\ appended' = Recorded(did, user_id)
    /\ last' = [handler |-> handler, user |-> user_id, update |-> upd,
                before |-> user_histories, did |-> did]

\* /start from one of these users
StartFrom(users) ==
    \E user_id \in users, upd \in CommandUpdates :
        /\ Deliver(FALSE)
        /\ Finish("start", user_id, upd, start(user_histories, upd))

\* /help from one of these users
HelpFrom(users) ==
    \E user_id \in users, upd \in CommandUpdates :
        /\ Deliver(FALSE)
        /\ Finish("help", user_id, upd, help_command(user_histories, upd))

\* /reset from one of these users
ResetFrom(users) ==
    \E user_id \in users, upd \in CommandUpdates :
        /\ Deliver(FALSE)
        /\ Finish("reset", user_id, upd,
                  reset_command(user_histories, user_id, upd))

\* An update that is no command, from one of these users, with these
\* contents and these answers of the transport and the completion service
MessageFrom(users, updates, typings, outcomes) ==
    \E user_id \in users, upd \in updates,
       typing \in typings, outcome \in outcomes :
        /\ Deliver(Plain("message", user_id, upd, typing, outcome))
        /\ Finish("message", user_id, upd,
                  handle_message(user_histories, user_id, upd, typing, outcome))

Start == StartFrom(Users)

HelpCommand == HelpFrom(Users)

ResetCommand == ResetFrom(Users)

HandleMessage == MessageFrom(Users, Updates, TypingOutcomes, CompletionOutcomes)

\* The inputs of the long conversation: one user, who sends texts and /reset
LongUsers == {1}
LongUpdates == {TextUpdate(TextPlain), TextUpdate(TextOther), TextUpdate(TextCrisis)}
LongOutcomes == {Completed(ReplyRaw), CallRaises}

ResetCommandLong == ResetFrom(LongUsers)

HandleMessageLong == MessageFrom(LongUsers, LongUpdates, TypingOutcomes, LongOutcomes)

StartLong == StartFrom(LongUsers)

HelpCommandLong == HelpFrom(LongUsers)

\* a second user, who has one kind of exchange: TextOther, answered
OtherUsers == {2}
HandleMessageOther ==
    MessageFrom(OtherUsers, {TextUpdate(TextOther)}, {"ok"}, {Completed(ReplyRaw)})

Init ==
    /\ user_histories = NoHistories
    /\ appended = NoHistories
    /\ last = Idle
    /\ probe = NoProbe
    /\ process = Polling
    /\ tasks = NoTasks
    /\ log = <<>>
    /\ memory = NoMemory
    /\ workers = NoWorkers
    /\ budget = [updates |-> MaxUpdates, varied |-> MaxUpdates]

InitLong ==
    /\ user_histories = NoHistories
    /\ appended = NoHistories
    /\ last = Idle
    /\ probe = NoProbe
    /\ process = Polling
    /\ tasks = NoTasks
    /\ log = <<>>
    /\ memory = NoMemory
    /\ workers = NoWorkers
    /\ budget = [updates |-> MaxLong, varied |-> MaxVaried]

Next == Start \/ HelpCommand \/ ResetCommand \/ HandleMessage

NextLong ==
    \/ StartLong \/ HelpCommandLong \/ ResetCommandLong
    \/ HandleMessageLong \/ HandleMessageOther

\* Every input at every step, MaxUpdates updates.
Spec == Init /\ [][Next]_vars

\* One long conversation of plain exchanges, with up to MaxVaried other
\* updates anywhere in it.
SpecLong == InitLong /\ [][NextLong]_vars

---------------------------------------------------------------------------
(* The start of the process *)

\* a test that takes the empty string for a value
not_given_only_none(value) == value = None

\* not TELEGRAM_TOKEN, not OPENAI_API_KEY: None and "" are false
not_given(value) == value = None \/ value = <<>>

\* if not TELEGRAM_TOKEN: raise RuntimeError
CheckToken ==
    /\ process.pc = "check_token"
    /\ process' = [process EXCEPT
          !.pc = IF not_given(process.token) THEN "raised" ELSE "check_key"]
    /\ UNCHANGED <<user_histories, last, appended, budget, probe, tasks, log, memory, workers>>

\* if not OPENAI_API_KEY: raise RuntimeError
CheckKey ==
    /\ process.pc = "check_key"
    /\ process' = [process EXCEPT
          !.pc = IF not_given(process.key) THEN "raised" ELSE "client"]
    /\ UNCHANGED <<user_histories, last, appended, budget, probe, tasks, log, memory, workers>>

\* client = OpenAI(api_key=OPENAI_API_KEY)
MakeClient ==
    /\ process.pc = "client"
    /\ process' = [process EXCEPT !.pc = "main", !.client = TRUE]
    /\ UNCHANGED <<user_histories, last, appended, budget, probe, tasks, log, memory, workers>>

\* main: the application is built, the handlers added, polling starts
Main ==
    /\ process.pc = "main"
    /\ process' = [process EXCEPT !.pc = "polling", !.app = TRUE]
    /\ UNCHANGED <<user_histories, last, appended, budget, probe, tasks, log, memory, workers>>

\* the module is loaded with any environment
InitStartup ==
    /\ user_histories = NoHistories
    /\ appended = NoHistories
    /\ last = Idle
    /\ probe = NoProbe
    /\ budget = [updates |-> MaxUpdates, varied |-> MaxUpdates]
    /\ tasks = NoTasks
    /\ log = <<>>
    /\ memory = NoMemory
    /\ workers = NoWorkers
    /\ process \in {[pc |-> "check_token", token |-> t, key |-> k,
                      client |-> FALSE, app |-> FALSE] :
                        t \in EnvValues, k \in EnvValues}

NextStartup ==
    \/ CheckToken \/ CheckKey \/ MakeClient \/ Main
    \/ Start \/ HelpCommand \/ ResetCommand \/ HandleMessage

\* The process from its start: the checks of the environment, then the bot
SpecStartup == InitStartup /\ [][NextStartup]_vars

---------------------------------------------------------------------------
(* Concurrent dispatch on one event loop: a handler coroutine runs until it
   awaits the transport (send_action, reply_text), another may run then.
   call_openai_chat holds no await of its own: the completion client is the
   synchronous one. *)

\* a handler that fetched the mapping before it awaited send_action
store_seen_before_await(seen, current) == seen

\* The mapping call_openai_chat works on: the module's user_histories as it
\* is when the coroutine runs again after awaiting send_action, not as it
\* was when the handler was dispatched.
store_seen(seen, current) == current

AsyncUsers == {1}
AsyncTexts == {TextPlain, TextOther, TextCrisis}
AsyncOutcomes == {Completed(ReplyRaw), CallRaises}

\* the number of the update being dispatched
NextSeq == MaxAsync - budget.updates + 1

\* the slot a dispatched coroutine takes
FirstFree(t) ==
    /\ tasks[t].pc = "free"
    /\ \A u \in TaskSlots : tasks[u].pc = "free" => t <= u

UseUpdate ==
    /\ budget.updates > 0
    /\ budget' = [budget EXCEPT !.updates = @ - 1]

\* handle_message is dispatched and runs up to await send_action
DispatchMessage ==
    \E t \in TaskSlots, user_id \in AsyncUsers, text \in AsyncTexts :
        /\ FirstFree(t)
        /\ UseUpdate
        /\ tasks' = [tasks EXCEPT ![t] =
              [pc |-> "typing", handler |-> "message", user |-> user_id,
               text |-> strip(text), seq |-> NextSeq, seen |-> user_histories]]
        /\ UNCHANGED <<user_histories, log, last, appended, probe, process, memory, workers>>

\* send_action is over: it raised, and the handler ends; or it returned, and
\* the handler runs up to its await of reply_text, through crisis_reply or
\* through call_openai_chat
ResumeMessage ==
    \E t \in TaskSlots, typing \in TypingOutcomes, outcome \in AsyncOutcomes :
        /\ tasks[t].pc = "typing"
        /\ IF typing = "raise"
           THEN /\ tasks' = [tasks EXCEPT ![t] = FreeTask]
                /\ UNCHANGED <<user_histories, log>>
           ELSE IF is_crisis_message(tasks[t].text)
           THEN /\ tasks' = [tasks EXCEPT ![t].pc = "reply"]
                /\ UNCHANGED <<user_histories, log>>
           ELSE LET h == store_seen(tasks[t].seen, user_histories)
                    r == call_openai_chat(h, tasks[t].user, tasks[t].text, outcome)
                IN  /\ user_histories' = r.histories
                    /\ log' = Append(log, [op |-> "chat", user |-> tasks[t].user,
                                            text |-> tasks[t].text,
                                            outcome |-> outcome,
                                            seq |-> tasks[t].seq])
                    /\ tasks' = [tasks EXCEPT ![t].pc = "reply"]
        /\ UNCHANGED <<budget, last, appended, probe, process, memory, workers>>

\* reset_command is dispatched: reset_history, then await reply_text
DispatchReset ==
    \E t \in TaskSlots, user_id \in AsyncUsers :
        /\ FirstFree(t)
        /\ UseUpdate
        /\ user_histories' = reset_history(user_histories, user_id)
        /\ log' = Append(log, [op |-> "reset", user |-> user_id, text |-> <<>>,
                                outcome |-> CallRaises, seq |-> NextSeq])
        /\ tasks' = [tasks EXCEPT ![t] =
              [pc |-> "reply", handler |-> "reset", user |-> user_id,
               text |-> <<>>, seq |-> NextSeq, seen |-> user_histories]]
        /\ UNCHANGED <<last, appended, probe, process, memory, workers>>

\* reply_text is over and the handler returns
ResumeReply ==
    \E t \in TaskSlots :
        /\ tasks[t].pc = "reply"
        /\ tasks' = [tasks EXCEPT ![t] = FreeTask]
        /\ UNCHANGED <<user_histories, log, budget, last, appended, probe, process, memory, workers>>

InitAsync ==
    /\ user_histories = NoHistories
    /\ appended = NoHistories
    /\ last = Idle
    /\ probe = NoProbe
    /\ process = Polling
    /\ tasks = NoTasks
    /\ log = <<>>
    /\ memory = NoMemory
    /\ workers = NoWorkers
    /\ budget = [updates |-> MaxAsync, varied |-> 0]

NextAsync == DispatchMessage \/ ResumeMessage \/ DispatchReset \/ ResumeReply

\* Handlers of one user interleaved at their await points
SpecAsync == InitAsync /\ [][NextAsync]_vars

---------------------------------------------------------------------------
(* Parallel workers without per-user serialization: each runs
   call_openai_chat on the same memory, and the other may run between the
   user append, the completion call, the assistant append and the trim.
   A list is an object: history (line 120) names the list the mapping held
   when the worker fetched it, whatever the mapping names later. *)

\* a worker that looks the list up in the mapping again at every statement
history_refetched(held, mapped) == mapped

\* history, the local variable bound at line 120
history_local(held, mapped) == held

WorkerUsers == {1}
WorkerOutcomes == {Completed(ReplyRaw), CallRaises}

\* the number of the message a worker takes
NextJob == MaxLong - budget.updates + 1

\* f with v at i
Put(f, i, v) == [j \in DOMAIN f \cup {i} |-> IF j = i THEN v ELSE f[j]]

\* the lists something still refers to: the mapping, or a running worker
Referenced(names, wk) ==
    {names[u] : u \in DOMAIN names}
        \cup {wk[w].held : w \in {v \in WorkerIds : wk[v].pc # "idle"}}

\* memory once the lists nothing refers to are gone
Collected(mem, wk) ==
    LET live == Referenced(mem.names, wk)
    IN  [mem EXCEPT !.lists = [i \in DOMAIN mem.lists \cap live |-> mem.lists[i]],
                    !.owners = [i \in DOMAIN mem.owners \cap live |-> mem.owners[i]]]

\* the identity a new list object gets
NewList(names, wk) == SetMin(ListIds \ Referenced(names, wk))

\* user_histories as the mapping and the lists give it
Mapped(mem) == [u \in DOMAIN mem.names |-> mem.lists[mem.names[u]]]

\* the other workers inside call_openai_chat
Running(w) == {v \in WorkerIds \ {w} : workers[v].pc # "idle"}

\* lines 120-121: history = get_history(user_id); history.append(user entry)
WorkerAppendUser ==
    \E w \in WorkerIds, user_id \in WorkerUsers :
        LET known == user_id \in DOMAIN memory.names
            id == IF known THEN memory.names[user_id]
                  ELSE NewList(memory.names, workers)
            found == get_history(Mapped(memory), user_id)[user_id]
            owned == IF known THEN memory.owners[id] ELSE <<0>>
            parallel == Running(w) # {}
        IN  /\ workers[w].pc = "idle"
            /\ \A v \in WorkerIds : workers[v].pc = "idle" => w <= v
            /\ budget.updates > 0
            /\ parallel => budget.varied > 0
            /\ budget' = [updates |-> budget.updates - 1,
                          varied |-> IF parallel THEN budget.varied - 1
                                     ELSE budget.varied]
            /\ memory' = [memory EXCEPT
                  !.names = Put(@, user_id, id),
                  !.lists = Put(@, id, append_user(found, strip(TextPlain))),
                  !.owners = Put(@, id, Append(owned, NextJob)),
                  !.overlaps = IF parallel THEN @ + 1 ELSE @]
            /\ workers' = [workers EXCEPT ![w] =
                  [pc |-> "call", job |-> NextJob, user |-> user_id,
                   held |-> id, reply |-> <<>>, stale |-> FALSE]]
            /\ user_histories' = Mapped(memory')
            /\ UNCHANGED <<last, appended, probe, process, tasks, log>>

\* lines 123-130 and 141-146: the completion call returns, and reply is
\* bound; or it raises, and the except block returns the fallback text
WorkerCall ==
    \E w \in WorkerIds, outcome \in WorkerOutcomes :
        /\ workers[w].pc = "call"
        /\ IF outcome.kind = "ok"
           THEN /\ workers' = [workers EXCEPT ![w].pc = "assistant",
                                              ![w].reply = strip(outcome.content)]
                /\ UNCHANGED <<memory, budget>>
           ELSE /\ budget.varied > 0
                /\ budget' = [budget EXCEPT !.varied = @ - 1]
                /\ workers' = [workers EXCEPT ![w] = IdleWorker]
                /\ memory' = Collected([memory EXCEPT
                                  !.failed = @ \cup {workers[w].job}], workers')
        /\ user_histories' = Mapped(memory')
        /\ UNCHANGED <<last, appended, probe, process, tasks, log>>

\* line 131: history.append(assistant entry)
WorkerAppendAssistant ==
    \E w \in WorkerIds :
        LET id == history_local(workers[w].held, memory.names[workers[w].user])
        IN  /\ workers[w].pc = "assistant"
            /\ memory' = [memory EXCEPT
                  !.lists[id] = append_assistant(@, workers[w].reply),
                  !.owners[id] = Append(@, workers[w].job)]
            /\ workers' = [workers EXCEPT ![w].pc = "trim"]
            /\ user_histories' = Mapped(memory')
            /\ UNCHANGED <<budget, last, appended, probe, process, tasks, log>>

\* lines 134-139: if len(history) > 30, the mapping gets a new list made of
\* history[0] and history[-28:]; then the worker returns. A worker that has
\* still to append its reply keeps the list it fetched (stale from now on).
WorkerTrim ==
    \E w \in WorkerIds :
        LET user_id == workers[w].user
            id == history_local(workers[w].held, memory.names[user_id])
            history == memory.lists[id]
            returned == [workers EXCEPT ![w] = IdleWorker]
            left == [v \in WorkerIds |->
                        IF v # w /\ workers[v].pc \in {"call", "assistant"}
                        THEN [workers[v] EXCEPT !.stale = TRUE]
                        ELSE returned[v]]
            new == NewList([u \in DOMAIN memory.names \ {user_id} |->
                               memory.names[u]], returned)
        IN  /\ workers[w].pc = "trim"
            /\ IF Len(history) > MAX_HISTORY
               THEN /\ workers' = left
                    /\ memory' = Collected([memory EXCEPT
                          !.names[user_id] = new,
                          !.lists = Put(@, new, trim_history(history)),
                          !.owners = Put(@, new, trim_history(memory.owners[id]))],
                          left)
               ELSE /\ workers' = returned
                    /\ memory' = Collected(memory, returned)
            /\ user_histories' = Mapped(memory')
            /\ UNCHANGED <<budget, last, appended, probe, process, tasks, log>>

InitWorkers ==
    /\ user_histories = NoHistories
    /\ appended = NoHistories
    /\ last = Idle
    /\ probe = NoProbe
    /\ process = Polling
    /\ tasks = NoTasks
    /\ log = <<>>
    /\ memory = NoMemory
    /\ workers = NoWorkers
    /\ budget = [updates |-> MaxLong, varied |-> MaxVaried]

NextWorkers ==
    WorkerAppendUser \/ WorkerCall \/ WorkerAppendAssistant \/ WorkerTrim

\* Two workers on the messages of one user, nothing serializing them
SpecWorkers == InitWorkers /\ [][NextWorkers]_vars

---------------------------------------------------------------------------
(* is_crisis_message on its own *)

\* str.upper() on one code point: basic Latin and the Cyrillic block
UpperChar(c) ==
    IF c \in 97..122 THEN c - 32
    ELSE IF c \in 1072..1103 THEN c - 32
    ELSE IF c \in 1104..1119 THEN c - 80
    ELSE c

\* a phrase as a user may type it: as it is, in capitals, capitalised, or
\* with every other letter a capital
Cased(s, style) ==
    [i \in 1..Len(s) |->
        CASE style = "upper" -> UpperChar(s[i])
          [] style = "capitalised" -> IF i = 1 THEN UpperChar(s[i]) ELSE s[i]
          [] style = "mixed" -> IF i % 2 = 0 THEN UpperChar(s[i]) ELSE s[i]
          [] OTHER -> s[i]]

Styles == {"lower", "upper", "capitalised", "mixed"}

\* s without its i-th code point
Without(s, i) == SubSeq(s, 1, i - 1) \o SubSeq(s, i + 1, Len(s))

\* " ", "ya", "." : what may stand before and after a phrase
PadChars == {32, 1103, 46}
Pads == UNION {[1..n -> PadChars] : n \in 0..MaxPad}

\* the phrases of the list, in every style, inside a longer text
PhraseTexts ==
    {pre \o Cased(crisis_keywords[k], style) \o post :
        pre \in Pads, post \in Pads, style \in Styles,
        k \in 1..Len(crisis_keywords)}

\* the same with one letter of the phrase missing
NearMissTexts ==
    UNION {{pre \o Cased(Without(crisis_keywords[k], i), style) \o post :
                pre \in Pads, post \in Pads, style \in {"lower", "upper"},
                i \in 1..Len(crisis_keywords[k])} :
           k \in 1..Len(crisis_keywords)}

ClassifyInputs == {None, <<>>} \cup Texts \cup PhraseTexts \cup NearMissTexts

\* is_crisis_message(text) is called once
Classify ==
    /\ probe.state = "idle"
    /\ \E text \in ClassifyInputs :
          probe' = [state |-> "classified", text |-> text,
                    verdict |-> is_crisis_message(text)]
    /\ UNCHANGED <<user_histories, last, appended, budget, process, tasks, log, memory, workers>>

InitClassify ==
    /\ user_histories = NoHistories
    /\ appended = NoHistories
    /\ last = Idle
    /\ probe = NoProbe
    /\ process = Polling
    /\ tasks = NoTasks
    /\ log = <<>>
    /\ memory = NoMemory
    /\ workers = NoWorkers
    /\ budget = [updates |-> 0, varied |-> 0]

NextClassify == Classify

\* is_crisis_message applied to one text of ClassifyInputs
SpecClassify == InitClassify /\ [][NextClassify]_vars

---------------------------------------------------------------------------
(* Properties *)

did == last.did
before == last.before

\* the latest handler was handle_message, given a message with a text
MessageHandled ==
    /\ last.handler = "message"
    /\ last.update.message
    /\ last.update.has_text
    /\ last.update.text # <<>>

\* the text handle_message works on: update.message.text.strip()
GivenText == strip(last.update.text)

FailureKinds == {"raise", "unreadable"}

\* the latest handler called the completion service and the call failed
CompletionFailed == MessageHandled /\ did.completion \in FailureKinds

\* the latest handler called the completion service and the call succeeded
CompletionSucceeded == MessageHandled /\ did.completion = "ok"

\* the list get_history returns for the latest handler's user, on the store
\* the handler found
HistoryFound == get_history(before, last.user)[last.user]

IsAssistant(e) == e.role = "assistant"

\* C1: handling a crisis message sends the fixed safety message, makes no
\* completion call and leaves the whole mapping unchanged.
C1_CrisisHandled ==
    (MessageHandled /\ is_crisis_message(GivenText)) =>
        /\ did.outbox = <<CRISIS_TEXT>>
        /\ did.calls = <<>>
        /\ user_histories = before

\* The part of C1 that holds of the code: a crisis message never reaches
\* the completion service and never changes the mapping.
CrisisNeverStored ==
    (MessageHandled /\ is_crisis_message(GivenText)) =>
        /\ did.calls = <<>>
        /\ user_histories = before
        /\ did.outbox \in {<<>>, <<CRISIS_TEXT>>}

\* C2: for a crisis message the safety reply is sent even when the typing
\* indicator call raises.
C2_CrisisReplyDespiteTypingError ==
    (MessageHandled /\ is_crisis_message(GivenText) /\ did.typing = "raise") =>
        did.outbox = <<CRISIS_TEXT>>

\* every completion call since the transcript of user_id was created
\* succeeded: the appended entries are user, assistant, user, assistant, ...
AllSucceeded(user_id) ==
    /\ Len(appended[user_id]) % 2 = 0
    /\ \A i \in 1..Len(appended[user_id]) :
          appended[user_id][i].role = IF i % 2 = 1 THEN "user" ELSE "assistant"

Exchanges(user_id) == Len(appended[user_id]) \div 2

\* C3: after N exchanges that all succeeded the transcript has 1 + 2N
\* entries while N <= 14; from the 15th on an exchange brings it to 31 and
\* trimming back to 29: the system entry and the 28 latest entries, in order.
C3_LengthAndRecency ==
    \A user_id \in DOMAIN user_histories :
        AllSucceeded(user_id) =>
            LET n == Exchanges(user_id)
                t == user_histories[user_id]
            IN  /\ n <= 14 => Len(t) = 1 + 2 * n /\ t = <<SystemEntry>> \o appended[user_id]
                /\ n >= 15 => Len(t) = 29 /\ t = <<SystemEntry>> \o LastN(appended[user_id], 28)
                /\ (n >= 15 /\ CompletionSucceeded /\ last.user = user_id) =>
                      Len(did.untrimmed) = 31

\* 16 exchanges succeeded, the first of them with its own text, which the
\* trimming has dropped
C3_Witness ==
    /\ 1 \in DOMAIN user_histories
    /\ AllSucceeded(1)
    /\ Exchanges(1) = 16
    /\ appended[1][1].content = strip(TextOther)
    /\ appended[1][3].content = strip(TextPlain)
    /\ CompletionSucceeded
    /\ Len(did.untrimmed) = 31

\* C4: after any handler invocation every transcript has at most 30 entries.
C4_AtMostThirty ==
    \A user_id \in DOMAIN user_histories : Len(user_histories[user_id]) <= 30

\* C5: a failed completion call is not repeated, raises nothing and yields
\* the fallback text; no assistant entry is added to the transcript.
C5_FailureAbsorbed ==
    CompletionFailed =>
        /\ Len(did.calls) = 1
        /\ did.stage = "replied"
        /\ did.outbox = <<FALLBACK_TEXT>>
        /\ SelectSeq(user_histories[last.user], IsAssistant)
              = SelectSeq(HistoryFound, IsAssistant)

\* a completion call failed for a user who had an exchange before
C5_Witness ==
    /\ CompletionFailed
    /\ last.user \in DOMAIN before
    /\ Len(SelectSeq(before[last.user], IsAssistant)) >= 1

\* C6: after a failed completion call the stored transcript is what
\* get_history returned before the call.
C6_NothingStoredOnFailure ==
    CompletionFailed => user_histories = get_history(before, last.user)

\* C7: every stored transcript is non-empty, starts with the system entry
\* and holds no other system entry.
C7_SystemEntryFirstAndOnly ==
    \A user_id \in DOMAIN user_histories :
        LET t == user_histories[user_id]
        IN  /\ Len(t) >= 1
            /\ t[1] = SystemEntry
            /\ \A i \in 2..Len(t) : t[i].role # "system"

\* a transcript that trimming has cut
C7_Witness ==
    \E user_id \in DOMAIN user_histories :
        /\ Len(appended[user_id]) > KEEP_LAST
        /\ Len(user_histories[user_id]) < 1 + Len(appended[user_id])
        /\ CompletionSucceeded
        /\ Len(did.untrimmed) > MAX_HISTORY

\* C8: reset_history removes the whole transcript, changes nothing for a
\* user without one, and is idempotent; get_history then returns a fresh
\* transcript of the system entry alone, as for a user never seen.
C8_ResetRemovesAndIsIdempotent ==
    /\ \A user_id \in Users :
          LET r == reset_history(user_histories, user_id)
          IN  /\ user_id \notin DOMAIN r
              /\ user_id \notin DOMAIN user_histories => r = user_histories
              /\ reset_history(r, user_id) = r
              /\ Len(get_history(r, user_id)[user_id]) = 1
              /\ get_history(r, user_id)[user_id][1].role = "system"
    /\ last.handler = "reset" =>
          /\ last.user \notin DOMAIN user_histories
          /\ last.user \notin DOMAIN before => user_histories = before

\* /reset from a user whose transcript held an exchange
C8_Witness ==
    /\ last.handler = "reset"
    /\ last.user \in DOMAIN before
    /\ Len(before[last.user]) >= 3
    /\ last.user \notin DOMAIN user_histories

\* C9: every non-empty text that is no crisis message gets exactly one
\* reply: the model's reply or the fallback text.
C9_ExactlyOneReply ==
    (MessageHandled /\ GivenText # <<>> /\ ~is_crisis_message(GivenText)) =>
        /\ Len(did.outbox) = 1
        /\ did.outbox[1] \in {strip(ReplyRaw), FALLBACK_TEXT}

\* What holds of the code on the normal path: once send_action has returned,
\* exactly one reply is sent, the model's reply or the fallback text.
OneReplyOnceTypingSent ==
    (MessageHandled /\ GivenText # <<>> /\ ~is_crisis_message(GivenText)
        /\ did.typing = "ok") =>
        /\ Len(did.outbox) = 1
        /\ did.completion = "ok" => did.outbox[1] = strip(ReplyRaw)
        /\ did.completion \in FailureKinds => did.outbox[1] = FALLBACK_TEXT

\* C10: the completion service is passed the stored transcript followed by
\* the current user message ([system, user] for a first message), and on
\* success the reply is stored right after that user message.
C10_CallCarriesTranscript ==
    (MessageHandled /\ did.calls # <<>>) =>
        LET sent == did.calls[1]
            mine == Entry("user", GivenText)
        IN  /\ Len(did.calls) = 1
            /\ sent = Append(HistoryFound, mine)
            /\ sent[1] = SystemEntry
            /\ last.user \notin DOMAIN before => sent = <<SystemEntry, mine>>
            /\ CompletionSucceeded =>
                  LET t == user_histories[last.user]
                  IN  /\ did.untrimmed = Append(sent, Entry("assistant", did.outbox[1]))
                      /\ t[Len(t) - 1] = mine
                      /\ t[Len(t)] = Entry("assistant", did.outbox[1])
                      /\ last.user \notin DOMAIN before =>
                            /\ Len(t) = 3
                            /\ t[3] = Entry("assistant", strip(ReplyRaw))

\* a first message and a later message of the same user, both answered
C10_Witness ==
    /\ CompletionSucceeded
    /\ last.user \in DOMAIN before
    /\ Len(before[last.user]) = 3
    /\ Len(user_histories[last.user]) = 5


\* the latest handler was handle_message, given an update without a
\* message, without a text, or with a text that is empty once stripped
EmptyGiven ==
    /\ last.handler = "message"
    /\ \/ ~last.update.message
       \/ ~last.update.has_text
       \/ strip(last.update.text) = <<>>

\* nothing was sent, nothing was asked of the completion service and the
\* store is as it was
Silent ==
    /\ did.outbox = <<>>
    /\ did.typing = "none"
    /\ did.calls = <<>>
    /\ user_histories = before

\* C11: an update with no message, no text or a text that is empty (also
\* once stripped) is dropped: no reply, no typing indicator, no completion
\* call, the store unchanged.
C11_EmptyDropped == EmptyGiven => Silent

\* The part of C11 that holds of the code: what the guard of handle_message
\* tests (no message, no text, the text "") is dropped silently.
DroppedAtGuard ==
    (/\ last.handler = "message"
     /\ ~last.update.message \/ ~last.update.has_text \/ last.update.text = <<>>)
        => Silent /\ did.stage = "dropped"

\* the store keeps every transcript but the one of the latest handler's user
OnlyOwnRemoved == user_histories = reset_history(before, last.user)

\* C12 as stated: /start and /help send their text and leave the store and
\* the completion service alone; /reset removes the issuing user's
\* transcript only and sends its confirmation.
C12_CommandsReply ==
    /\ last.handler = "start" =>
          did.outbox = <<START_TEXT>> /\ user_histories = before /\ did.calls = <<>>
    /\ last.handler = "help" =>
          did.outbox = <<HELP_TEXT>> /\ user_histories = before /\ did.calls = <<>>
    /\ last.handler = "reset" =>
          did.outbox = <<RESET_TEXT>> /\ OnlyOwnRemoved /\ did.calls = <<>>

\* what a command handler sends: its text when the update carries a
\* message, nothing otherwise
SentIfMessage(text) == did.outbox = IF last.update.message THEN <<text>> ELSE <<>>

\* C12, amended: the same, but the text is sent only when update.message is
\* set; for an update without it (an edited command) nothing is sent, and
\* /reset removes the transcript all the same.
C12_CommandsReplyIfMessage ==
    /\ last.handler = "start" =>
          SentIfMessage(START_TEXT) /\ user_histories = before /\ did.calls = <<>>
    /\ last.handler = "help" =>
          SentIfMessage(HELP_TEXT) /\ user_histories = before /\ did.calls = <<>>
    /\ last.handler = "reset" =>
          SentIfMessage(RESET_TEXT) /\ OnlyOwnRemoved /\ did.calls = <<>>

\* /start from a user never seen, while another user has a transcript
C12_Witness ==
    /\ last.handler = "start"
    /\ last.update.message
    /\ did.outbox = <<START_TEXT>>
    /\ last.user \notin DOMAIN user_histories
    /\ DOMAIN user_histories # {}
    /\ user_histories = before


\* two code points are the same letter, whatever their case
SameLetter(a, b) == UpperChar(a) = UpperChar(b)

\* the text holds the phrase at position i, letter by letter, in any case
PhraseAt(text, kw, i) ==
    /\ i + Len(kw) - 1 <= Len(text)
    /\ \A j \in 1..Len(kw) : SameLetter(text[i + j - 1], kw[j])

\* the text holds a phrase of the list somewhere, in any case
MentionsPhrase(text) ==
    /\ text # None
    /\ \E k \in 1..Len(crisis_keywords) :
          \E i \in 1..Len(text) : PhraseAt(text, crisis_keywords[k], i)

\* C13: is_crisis_message returns crisis exactly for the texts that hold a
\* phrase of the list somewhere, in any letter case; normal for "" and None;
\* and it changes nothing.
C13_ClassifierMatchesAnywhere ==
    probe.state = "classified" =>
        /\ probe.verdict = MentionsPhrase(probe.text)
        /\ probe.text \in {None, <<>>} => ~probe.verdict
        /\ user_histories = NoHistories /\ last = Idle

\* a phrase in capitals or mixed case, inside a longer text, found
C13_Witness ==
    /\ probe.state = "classified"
    /\ probe.verdict
    /\ probe.text # lower(probe.text)
    /\ \A k \in 1..Len(crisis_keywords) :
          Len(probe.text) > Len(crisis_keywords[k])

\* a text with a letter of a phrase missing is no crisis message
C13_WitnessNormal ==
    /\ probe.state = "classified"
    /\ ~probe.verdict
    /\ probe.text \in NearMissTexts


\* the variable is not set, or set to the empty string
Absent(value) == value \in {None, <<>>}

\* C14: with the bot token or the API key absent or empty the process
\* raises before the completion client and the application are made, and no
\* handler ever runs.
C14_FailFast ==
    (Absent(process.token) \/ Absent(process.key)) =>
        /\ process.pc \in {"check_token", "check_key", "raised"}
        /\ ~process.client
        /\ ~process.app
        /\ last = Idle
        /\ user_histories = NoHistories

\* the token is set, the key is the empty string: raised at the second check
C14_Witness ==
    /\ process.pc = "raised"
    /\ process.token = Secret
    /\ process.key = <<>>
    /\ ~process.client


\* the transcript is the system entry followed by user, assistant, user,
\* assistant, ..., ending with an assistant entry when it holds any
Alternating(t) ==
    /\ Len(t) % 2 = 1
    /\ \A i \in 2..Len(t) : t[i].role = IF i % 2 = 0 THEN "user" ELSE "assistant"

\* C15: after every handler invocation each stored transcript is the system
\* entry followed by strictly alternating user and assistant entries, every
\* user entry directly followed by its reply.
C15_StrictAlternation ==
    \A user_id \in DOMAIN user_histories : Alternating(user_histories[user_id])

\* What holds of the code: the entries alternate, trimmed transcripts
\* included, as long as no completion call of the user has failed.
AlternatingWhileSucceeding ==
    \A user_id \in DOMAIN user_histories :
        AllSucceeded(user_id) => Alternating(user_histories[user_id])


\* C18: a handler invocation for one user leaves the presence and the
\* contents of every other user's transcript unchanged.
C18_OtherUsersUntouched ==
    last.handler # "none" =>
        \A other \in Users \ {last.user} :
            /\ other \in DOMAIN user_histories <=> other \in DOMAIN before
            /\ other \in DOMAIN before => user_histories[other] = before[other]

\* the transcript of user 1 is trimmed while user 2 has a transcript
C18_Witness ==
    /\ CompletionSucceeded
    /\ last.user = 1
    /\ Len(did.untrimmed) > MAX_HISTORY
    /\ Len(user_histories[1]) = KEEP_LAST + 1
    /\ 2 \in DOMAIN user_histories
    /\ Len(user_histories[2]) >= 3


\* the transcript the mapping names for the user, and the message each of
\* its entries was appended for (0: the system entry)
Transcript(u) == memory.lists[memory.names[u]]
Owners(u) == memory.owners[memory.names[u]]

\* the reply of the message is still to come: its worker is before line 131
Pending(job) ==
    \E w \in WorkerIds :
        workers[w].job = job /\ workers[w].pc \in {"call", "assistant"}

\* the transcript holds the assistant entry appended for the message
ReplyMapped(u, job) ==
    \E i \in 1..Len(Transcript(u)) :
        Transcript(u)[i].role = "assistant" /\ Owners(u)[i] = job

\* a user entry whose message was answered is not directly followed by the
\* reply to that message
Misplaced(u) ==
    \E i \in 1..Len(Transcript(u)) :
        /\ Transcript(u)[i].role = "user"
        /\ Owners(u)[i] \notin memory.failed
        /\ ~Pending(Owners(u)[i])
        /\ ~(/\ i < Len(Transcript(u))
             /\ Transcript(u)[i + 1].role = "assistant"
             /\ Owners(u)[i + 1] = Owners(u)[i])

\* the worker's history is a list the mapping no longer names
Detached(w) ==
    /\ workers[w].pc # "idle"
    /\ workers[w].held # memory.names[workers[w].user]

\* the worker has appended its reply, and the mapped transcript lacks it
LostReply(w) ==
    /\ workers[w].pc = "trim"
    /\ Detached(w)
    /\ ~ReplyMapped(workers[w].user, workers[w].job)

\* C16: two workers running call_openai_chat for the same user, interleaved
\* between the user append, the completion call, the assistant append and
\* the trim, reach a corrupted transcript (C16_Witness); the corruption is
\* the interleaving's: while no worker has entered call_openai_chat with
\* another inside it, every answered user entry is directly followed by its
\* own reply and every worker's history is the list the mapping names; and
\* a reply appended after another worker's trim replaced the list in the
\* mapping is not in the transcript the mapping names.
C16_CorruptionByInterleaving ==
    /\ memory.overlaps = 0 =>
          /\ \A u \in DOMAIN memory.names : ~Misplaced(u)
          /\ \A w \in WorkerIds : ~Detached(w)
    /\ \A w \in WorkerIds :
          workers[w].pc = "trim" /\ workers[w].stale => LostReply(w)

\* two messages in parallel, both answered: the first worker's trim has
\* replaced the list, the second has appended its reply to the old one, and
\* the mapped transcript has a user entry followed by the other user entry
C16_Witness ==
    \E w \in WorkerIds :
        /\ memory.overlaps = 1
        /\ memory.failed = {}
        /\ workers[w].pc = "trim" /\ workers[w].stale
        /\ LostReply(w)
        /\ Misplaced(workers[w].user)

\* the interleaved user appends alone, no trim involved
C16_WitnessOrder ==
    /\ \A w \in WorkerIds : workers[w].pc = "idle"
    /\ memory.failed = {}
    /\ \E u \in DOMAIN memory.names :
          /\ Len(Transcript(u)) = 5
          /\ Transcript(u)[2].role = "user"
          /\ Transcript(u)[3].role = "user"
          /\ Misplaced(u)

\* the store after these mutations, run one after the other from the empty
\* mapping
RECURSIVE Replay(_)
Replay(mutations) ==
    IF mutations = <<>> THEN NoHistories
    ELSE LET m == mutations[Len(mutations)]
             h == Replay(SubSeq(mutations, 1, Len(mutations) - 1))
         IN  IF m.op = "reset"
             THEN reset_history(h, m.user)
             ELSE call_openai_chat(h, m.user, m.text, m.outcome).histories

\* C17: with handlers interleaving at their await points only, the store is
\* the result of the handlers' store mutations run in a serial order (the
\* order in which their mutating steps ran), each handler mutating once at
\* most.
C17_Serializable ==
    /\ user_histories = Replay(log)
    /\ \A i, j \in 1..Len(log) : log[i].seq = log[j].seq => i = j

\* two messages of one user in flight together, the one dispatched second
\* stored first, while the first still awaits the transport
C17_Witness ==
    /\ Len(log) >= 2
    /\ log[1].op = "chat" /\ log[2].op = "chat"
    /\ log[1].seq > log[2].seq
    /\ log[1].user = log[2].user
    /\ \E t \in TaskSlots : tasks[t].pc = "reply" /\ tasks[t].seq = log[1].seq
    /\ \E t \in TaskSlots : tasks[t].pc = "reply" /\ tasks[t].seq = log[2].seq

=============================================================================
